---- MODULE Spec2Model ----
(***************************************************************************)
(* Model of phase1.py: the opportunity finder.                             *)
(*                                                                         *)
(* One call of check_for_opportunities is a "cycle".  The provider's       *)
(* response is immutable once fetched and is only read, so the model draws *)
(* each record (race, runner, list of bookmaker markets) at the statement  *)
(* that first reads it.  Times are seconds relative to now_utc (line 290), *)
(* prices are hundredths.                                                  *)
(***************************************************************************)
EXTENDS Integers, Sequences, FiniteSets

(* ------------------------------ bounds -------------------------------- *)
MaxCycles  == 2   \* calls of check_for_opportunities
MaxRaces   == 1   \* races returned by the provider in one cycle
MaxRunners == 1   \* runners of one race
MaxMarkets == 2   \* bookmaker markets of one runner
MaxRecords == 4   \* races, runners and bookmaker markets read in one cycle
MaxPages   == 4   \* pages fetched in one cycle
MaxElapsed == 4   \* seconds one cycle of the live loop takes, at most

(* ----------------------- configuration (lines 27-40) ------------------ *)
TARGET_BOOKMAKERS_STR == {"Sportsbet", "Tab", "Boombet", "Tabtouch"}
MIN_TIME_TO_JUMP == 2
MAX_TIME_TO_JUMP == 15
PAGE_LIMIT == 95
DEFAULT_CHECK_INTERVAL_SECONDS == 3
STATUSES_TO_PROCESS == {"Open", "Suspended"}

\* Bookmaker names the provider's data uses here; Ladbrokes is not a target.
Bookmakers == {"Sportsbet", "Tab", "Ladbrokes"}

(* ------------------------- JSON scalar values ------------------------- *)
\* k: "null" (JSON null / key absent), "num" (JSON number n), "numstr"
\* (a string float() parses to n), "text" (any other non-empty string),
\* "empty" (the string '').
Val(k, n) == [k |-> k, n |-> n]
Null      == Val("null", 0)
Num(n)    == Val("num", n)
NumStr(n) == Val("numstr", n)
Text      == Val("text", 0)
Empty     == Val("empty", 0)

\* float(x): the parsed number, or a ValueError/TypeError.
float(v) ==
    IF v.k \in {"num", "numstr"} THEN [ok |-> TRUE, n |-> v.n]
    ELSE [ok |-> FALSE, n |-> 0]

\* Python truthiness of a scalar.
Truthy(v) ==
    CASE v.k = "null"  -> FALSE
      [] v.k = "empty" -> FALSE
      [] v.k = "num"   -> v.n # 0
      [] OTHER         -> TRUE

(* ----------------------------- strings -------------------------------- *)
\* Market names are sequences of characters so that lower() and the
\* substring tests of get_betfair_lay_price are computed, not assumed.
Upper == <<"A","B","C","D","E","I","L","N","O","P","T","W">>
Lowerc == <<"a","b","c","d","e","i","l","n","o","p","t","w">>

lower_char(c) ==
    IF \E i \in 1..Len(Upper) : Upper[i] = c
    THEN Lowerc[CHOOSE i \in 1..Len(Upper) : Upper[i] = c]
    ELSE c

lower(s) == [i \in 1..Len(s) |-> lower_char(s[i])]

\* Python's  sub in s  for strings.
contains(s, sub) ==
    \E i \in 0..(Len(s) - Len(sub)) :
        \A j \in 1..Len(sub) : s[i + j] = sub[j]

STR_win    == <<"w","i","n">>
STR_place  == <<"p","l","a","c","e">>
STR_placed == <<" ","t","o"," ","b","e"," ","p","l","a","c","e","d">>

(* ------------------- get_betfair_lay_price (153-192) ------------------ *)
\* An exchange market of a runner.  is_dict: the list item is a dict;
\* name_is_str: 'marketName' holds a string (JSON null gives None, and
\* None.lower() raises AttributeError at line 165); lay_is_list / lay: the
\* 'lay' levels, each level given by its 'price'.
BetfairMarket(name, lay) ==
    [is_dict |-> TRUE, name_is_str |-> TRUE, marketName |-> name,
     lay_is_list |-> TRUE, lay |-> lay]

RECURSIVE lay_scan(_, _)
lay_scan(markets, i) ==
    IF i > Len(markets) THEN [exc |-> FALSE, price |-> Null]
    ELSE LET market_data == markets[i] IN
      IF ~market_data.is_dict THEN lay_scan(markets, i + 1)
      ELSE IF ~market_data.name_is_str THEN [exc |-> TRUE, price |-> Null]
      ELSE
        LET market_name == lower(market_data.marketName)
            is_win_market == /\ contains(market_name, STR_win)
                             /\ ~contains(market_name, STR_place)
                             /\ ~contains(market_name, STR_placed)
        IN
        IF ~is_win_market THEN lay_scan(markets, i + 1)
        ELSE IF ~(market_data.lay_is_list /\ Len(market_data.lay) > 0)
             THEN lay_scan(markets, i + 1)
        ELSE
          LET price_str == market_data.lay[1]    \* best lay is first
              price == float(price_str)
          IN
          IF price_str.k \in {"null", "empty"} THEN lay_scan(markets, i + 1)
          ELSE IF ~price.ok THEN lay_scan(markets, i + 1)  \* except, line 184
          ELSE IF price.n > 0 THEN [exc |-> FALSE, price |-> Num(price.n)]
          ELSE lay_scan(markets, i + 1)

\* Result: exc (an exception escaped) and price (Null for Python's None).
get_betfair_lay_price(runner_data) ==
    IF ~runner_data.betfairMarkets.is_list
    THEN [exc |-> FALSE, price |-> Null]
    ELSE lay_scan(runner_data.betfairMarkets.items, 1)

(* ----------------------- the sink, place_bet (53-60) ------------------ *)
\* def place_bet(**kwargs) binds keyword arguments only: a call that passes
\* positional arguments raises TypeError before the body runs.
place_bet(args) == IF Len(args) = 0 THEN "ok" ELSE "TypeError"

(* ------------ execute_graphql_query with backoff (196-231) ------------ *)
max_tries == 5       \* line 198
max_time  == 60      \* line 199, seconds

\* 'Authentication failed.' (line 208)
STR_AuthFailed ==
    <<"A","u","t","h","e","n","t","i","c","a","t","i","o","n"," ","f","a","i","l","e","d",".">>

\* Messages of GraphQL error items: the signal alone, the signal inside a
\* longer message, the signal in lower case, and an unrelated message.
MSG_Auth      == STR_AuthFailed
MSG_AuthIn    == <<"4","0","1",":"," ">> \o STR_AuthFailed \o <<" ","k","e","y">>
MSG_AuthLower ==
    <<"a","u","t","h","e","n","t","i","c","a","t","i","o","n"," ","f","a","i","l","e","d",".">>
MSG_Rate      == <<"R","a","t","e"," ","l","i","m","i","t","e","d">>

ErrorItem(message) == [is_dict |-> TRUE, message |-> message]
NonDictItem        == [is_dict |-> FALSE, message |-> <<>>]

\* The body of a response as response.json() gives it (line 221).
Body(is_json, has_errors, errors, has_data) ==
    [is_json |-> is_json, has_errors |-> has_errors, errors |-> errors,
     has_data |-> has_data]
DataBody          == Body(TRUE, FALSE, <<>>, TRUE)
NoDataBody        == Body(TRUE, FALSE, <<>>, FALSE)
NotJsonBody       == Body(FALSE, FALSE, <<>>, FALSE)
ErrorsBody(errors) == Body(TRUE, TRUE, errors, TRUE)

\* What requests.post gives (line 219): no response at all (connection
\* error, timeout), or a status and a body.
NoResponse == [connected |-> FALSE, status |-> 0, body |-> NotJsonBody]
Response(status, body) == [connected |-> TRUE, status |-> status, body |-> body]

\* Exceptions one attempt can raise.  is_dict: args[0] is a dict (line 226).
Exc(type, status, is_dict, errors) ==
    [type |-> type, status |-> status, is_dict |-> is_dict, errors |-> errors]
NoExc == Exc("none", 0, FALSE, <<>>)

\* lines 216-231: the body of execute_graphql_query, one attempt.
execute_graphql_query(resp) ==
    IF ~resp.connected
    THEN Exc("RequestException", 0, FALSE, <<>>)             \* line 219
    ELSE IF resp.status >= 400 /\ resp.status < 600
    THEN Exc("HTTPError", resp.status, FALSE, <<>>)          \* line 220
    ELSE IF ~resp.body.is_json
    THEN Exc("JSONDecodeError", 0, FALSE, <<>>)              \* line 221
    ELSE IF resp.body.has_errors
    THEN Exc("ValueError", 0, TRUE, resp.body.errors)        \* lines 222-226
    ELSE IF ~resp.body.has_data
    THEN Exc("ValueError", 0, FALSE, <<>>)                   \* lines 227-229
    ELSE NoExc                                               \* line 231

\* line 197: the exception classes the decorator retries on.  HTTPError and
\* JSONDecodeError are RequestExceptions.
backoff_catches(e) ==
    e.type \in {"RequestException", "HTTPError", "JSONDecodeError", "ValueError"}

\* lines 204-208: the authentication give-up test.
is_auth_error(e) ==
    /\ e.type = "ValueError"
    /\ e.is_dict
    /\ \E i \in DOMAIN e.errors :
          /\ e.errors[i].is_dict
          /\ contains(e.errors[i].message, STR_AuthFailed)

\* lines 209-211: the client-error give-up test.
is_client_error_any(e) ==
    e.type = "HTTPError" /\ 400 <= e.status /\ e.status < 500

is_client_error(e) ==
    e.type = "HTTPError" /\ 400 <= e.status /\ e.status < 500 /\ e.status # 429

\* lines 204-212: giveup
giveup_no_auth(e) == is_client_error(e)

giveup_no_client(e) == is_auth_error(e)

giveup_on_ValueError(e) ==
    is_auth_error(e) \/ is_client_error(e) \/ e.type = "ValueError"

giveup(e) == is_auth_error(e) \/ is_client_error(e)

\* The decorator's loop after a failed attempt number tries, started
\* elapsed seconds after the first: raise to the caller, or wait and retry.
retry_stops_unbounded(e, tries, elapsed) ==
    giveup(e) \/ elapsed >= max_time

retry_stops(e, tries, elapsed) ==
    giveup(e) \/ tries = max_tries \/ elapsed >= max_time

(* --------------- the scanner's tests, check_for_opportunities --------- *)
\* line 301: race_status not in STATUSES_TO_PROCESS -> continue
status_active(race_status) == race_status \in STATUSES_TO_PROCESS

\* lines 306-318: a missing (falsy) startTime and a string fromisoformat
\* rejects are skipped; "iso" is a timestamp n seconds after now_utc.
Iso(n) == Val("iso", n)
start_time_parses(startTime) == startTime.k = "iso"

\* line 310: startTime_str.replace(...) on a truthy value that is not a
\* string raises AttributeError, which the except clause of line 313
\* (ValueError, TypeError) does not catch.
start_time_raises_unparsable(startTime) ==
    startTime.k \notin {"null", "empty", "iso"}

start_time_raises(startTime) ==
    startTime.k \notin {"null", "empty", "text", "iso"}

\* Variant: the buffer of step 3 reaches into the window.
already_started_in_window(secs) == secs <= MIN_TIME_TO_JUMP * 60

\* line 321: start_time_utc <= now_utc - timedelta(minutes=1)
already_started(secs) == secs <= 0 - 60

\* Variant: the window's bounds compared strictly.
in_time_window_strict(secs) ==
    /\ MIN_TIME_TO_JUMP * 60 < secs
    /\ secs < MAX_TIME_TO_JUMP * 60

\* lines 326-329: minutes_to_jump = secs / 60 and
\* MIN_TIME_TO_JUMP <= minutes_to_jump <= MAX_TIME_TO_JUMP, in seconds.
in_time_window(secs) ==
    /\ MIN_TIME_TO_JUMP * 60 <= secs
    /\ secs <= MAX_TIME_TO_JUMP * 60

\* lines 296-337 for one race: is it appended to races_in_time_window?
race_kept(race) ==
    /\ status_active(race.status)
    /\ start_time_parses(race.startTime)
    /\ ~already_started(race.startTime.n)
    /\ in_time_window(race.startTime.n)

\* A runner's 'name' member when it is not a string: the key is not there,
\* or it is there with a JSON null.
AbsentName == "<absent>"
NullName   == "<null>"

\* line 357: runner_data.get('name', 'N/A'); the default stands in for an
\* absent key only, a null gives None.
runner_name_of(runner) == IF runner.name = AbsentName THEN "N/A" ELSE runner.name

\* line 360: not runner_id or runner_name == 'N/A'.  NoId is an 'id' that
\* is absent, null or empty.
NoId == ""
runner_unidentified(runner) == runner.id = NoId \/ runner_name_of(runner) = "N/A"

\* Variant: scratchedTime tested for truth instead of  is not None.
is_scratched_truthy(runner) == Truthy(runner.scratchedTime)

\* line 361: runner_data.get('scratchedTime') is not None
is_scratched(runner) == runner.scratchedTime.k # "null"

\* lines 377-390: the bookmaker price of one market; ok = FALSE when the
\* market is passed over (no fixedWin, no price, unparsable, not positive).
bookmaker_price_of(market) ==
    LET fixed_win_data == market.fixedWin
        price_str == fixed_win_data.price     \* str(price), line 380
        parsed == float(price_str)
    IN
    IF ~fixed_win_data.is_dict \/ price_str.k = "null"
      THEN [ok |-> FALSE, n |-> 0]                     \* line 378
    ELSE IF price_str.k = "empty"
      THEN [ok |-> FALSE, n |-> 0]                     \* line 382, '' is falsy
    ELSE IF ~parsed.ok
      THEN [ok |-> FALSE, n |-> 0]                     \* lines 386-388
    ELSE IF parsed.n <= 0
      THEN [ok |-> FALSE, n |-> 0]                     \* line 384
    ELSE [ok |-> TRUE, n |-> parsed.n]

\* Variant: the allow-list is not consulted.
is_target_bookmaker_any(bookmaker_name) == bookmaker_name \in Bookmakers

\* line 375: bookmaker_name not in TARGET_BOOKMAKERS_STR -> continue
is_target_bookmaker(bookmaker_name) == bookmaker_name \in TARGET_BOOKMAKERS_STR

\* Variants: the comparison reversed, and strict.
is_opportunity_reversed(bookmaker_price, lay_price) == bookmaker_price <= lay_price
is_opportunity_strict(bookmaker_price, lay_price) == bookmaker_price > lay_price

\* line 392: bookmaker_price >= betfair_lay_price
is_opportunity(bookmaker_price, lay_price) == bookmaker_price >= lay_price

\* line 393
opportunity_key(race, runner, market) == <<race.id, runner.id, market.bookmaker>>

\* Variant: the store is not consulted.
not_reported_always(key, store) == key = key

\* line 396: opportunity_key not in PERSISTENT_REPORTED_OPPORTUNITIES
not_reported(key, store) == key \notin store

\* Variant: the set is rebound instead of extended.
store_add_replace(store, key) == {key}

\* line 397: PERSISTENT_REPORTED_OPPORTUNITIES.add(opportunity_key)
store_add(store, key) == store \cup {key}

(* ---------------------- pagination (lines 261-281) ------------------- *)
\* Variant: a full page ends the loop too.
is_last_page_or_full(n) == n <= PAGE_LIMIT

\* line 274: the page that ends the loop
is_last_page(n) == n < PAGE_LIMIT

\* line 278: current_offset += PAGE_LIMIT
next_offset_same(offset) == offset

next_offset(offset) == offset + PAGE_LIMIT

\* lines 283-285: if not fetch_successful: return 0
aborts_cycle_never(fetch_ok) == fetch_ok # fetch_ok

aborts_cycle(fetch_ok) == ~fetch_ok

min(a, b) == IF a <= b THEN a ELSE b
max(a, b) == IF a >= b THEN a ELSE b

(* ------------------------- exception handlers ------------------------- *)
\* What an except clause naming Exception catches (lines 266, 446, 503,
\* 524): KeyboardInterrupt and SystemExit derive from BaseException only.
caught_by_Exception_all(exc) == exc = exc

caught_by_Exception_none(exc) == exc # exc

caught_by_Exception_no_TypeError(exc) ==
    exc \notin {"KeyboardInterrupt", "SystemExit", "TypeError"}

caught_by_Exception_and_SystemExit(exc) == exc # "KeyboardInterrupt"

caught_by_Exception(exc) == exc \notin {"KeyboardInterrupt", "SystemExit"}

\* The handler that catches an exception raised inside the loop of line
\* 490: the innermost enclosing try whose except clause matches.  in_fetch:
\* raised by line 265; in_call: raised inside the try of line 255; in_try:
\* raised inside the try of line 495.
handler_of(exc, in_fetch, in_call, in_try) ==
    IF in_fetch /\ caught_by_Exception(exc) THEN "266"
    ELSE IF in_call /\ caught_by_Exception(exc) THEN "446"
    ELSE IF in_try /\ caught_by_Exception(exc) THEN "503"
    ELSE IF exc = "KeyboardInterrupt" THEN "519"
    ELSE IF caught_by_Exception(exc) THEN "524"
    ELSE "uncaught"

\* Handlers 519 and 524 are outside the while loop, and an uncaught
\* exception ends the process.
stops_loop_at_446(h) == h \notin {"266", "503"}

stops_loop(h) == h \notin {"266", "446", "503"}

\* How the call ended, by the handler its exception went to.
ended_by(h) ==
    CASE h = "266" -> "aborted"
      [] h = "446" -> "except"
      [] h = "503" -> "escaped"
      [] h = "519" -> "interrupted"
      [] OTHER     -> "fatal"

\* The status the process ends with: handlers 519 and 524 fall through to
\* the end of the script; an exception nothing catches, SystemExit(1) of
\* lines 245 and 464 included, ends it with status 1.
exit_status_of(h) == IF h = "uncaught" THEN 1 ELSE 0

(* ------------------- the provider's data (query, 124-139) ------------- *)
RaceIds   == {"r1", "r2"}
RunnerIds == {"h1"}
Keys == RaceIds \X RunnerIds \X Bookmakers

\* startTime: absent, unparsable, or a timestamp at the edges of the
\* one-minute tolerance (line 321) and of the window (line 329).
StartTimes ==
    {Null, Text} \cup {Iso(n) : n \in {0 - 60, 0 - 59, 119, 120, 600, 900, 901}}

\* A startTime that is a JSON number.
NonStringStartTimes == {Num(600)}

\* Every start time with status Open, every status 10 minutes before the jump.
\* 'meeting': a dict, or JSON null.
Meeting     == [is_dict |-> TRUE]
NullMeeting == [is_dict |-> FALSE]

Races ==
    [id : RaceIds, status : {"Open"}, startTime : StartTimes,
     meeting : {Meeting}]
    \cup [id : {"r1"}, status : {"Open"}, startTime : NonStringStartTimes,
          meeting : {Meeting}]
    \cup [id : {"r1"}, status : {"Open"}, startTime : {Iso(600)},
          meeting : {NullMeeting}]
    \cup [id : RaceIds, status : {"Suspended", "Closed"}, startTime : {Iso(600)},
          meeting : {Meeting}]

STR_Win   == <<"W","i","n">>
STR_Place == <<"P","l","a","c","e">>
STR_ToBePlaced == <<"T","o"," ","B","e"," ","P","l","a","c","e","d">>

List(items) == [is_list |-> TRUE, items |-> items]
NotAList    == [is_list |-> FALSE, items |-> <<>>]

BetfairFeeds ==
    { NotAList,
      List(<<>>),
      List(<<BetfairMarket(STR_Win, <<Num(240)>>)>>),
      List(<<BetfairMarket(STR_Place, <<Num(200)>>),
             BetfairMarket(STR_Win, <<NumStr(250), Num(230)>>)>>),
      List(<<BetfairMarket(STR_Win, <<Text>>),
             BetfairMarket(STR_ToBePlaced, <<Num(200)>>)>>),
      List(<<[BetfairMarket(STR_Win, <<Num(240)>>) EXCEPT !.name_is_str = FALSE]>>) }

\* Unscratched runners with a win-market lay of 2.40 and no 'id', no 'name'
\* key, or a null 'name'.
UnidentifiedRunners ==
    LET feed == List(<<BetfairMarket(STR_Win, <<Num(240)>>)>>) IN
    { [id |-> NoId, name |-> "name", scratchedTime |-> Null, betfairMarkets |-> feed],
      [id |-> "h1", name |-> AbsentName, scratchedTime |-> Null, betfairMarkets |-> feed],
      [id |-> "h1", name |-> NullName, scratchedTime |-> Null, betfairMarkets |-> feed] }

Runners == [id : RunnerIds, name : {"name"},
            scratchedTime : {Null, Empty, Text},
            betfairMarkets : BetfairFeeds]

\* The runner records the provider returns: all with 'id' and 'name', or
\* some without.
ProviderRunners(complete) ==
    IF complete THEN Runners ELSE Runners \cup UnidentifiedRunners

FixedWin(price) == [is_dict |-> TRUE, price |-> price]
NoFixedWin      == [is_dict |-> FALSE, price |-> Null]

BookmakerMarkets ==
    [bookmaker : {"Sportsbet"},
     fixedWin : {NoFixedWin, FixedWin(Null), FixedWin(Text), FixedWin(Num(0)),
                 FixedWin(Num(239)), FixedWin(NumStr(240)), FixedWin(Num(250))}]
    \cup [bookmaker : {"Tab"}, fixedWin : {FixedWin(Num(240))}]
    \cup [bookmaker : {"Ladbrokes"}, fixedWin : {FixedWin(Num(250))}]

SeqsUpTo(S, n) == UNION {[1..k -> S] : k \in 0..n}

\* Races of a full page: a cycle reads full pages of races the filter
\* passes over, for their status or for a start time that does not parse,
\* followed by a last page of at most MaxRaces races of any kind.
FullPageRaces ==
    {race \in Races : /\ race.id = "r1"
                      /\ \/ race.status = "Closed"
                         \/ race.startTime = Text}

\* HTTP statuses, at the edges of the ranges of lines 211 and 220.
Statuses == {200, 400, 401, 429, 499, 500}

\* The 'errors' member of a response body.
ErrorLists ==
    { <<ErrorItem(MSG_Auth)>>,
      <<ErrorItem(MSG_Rate), ErrorItem(MSG_AuthIn)>>,
      <<ErrorItem(MSG_AuthLower)>>,
      <<ErrorItem(MSG_Rate)>>,
      <<NonDictItem>> }

Responses ==
    {NoResponse}
    \cup {Response(s, NotJsonBody) : s \in Statuses \ {200}}
    \cup {Response(200, b) :
            b \in {DataBody, NoDataBody, NotJsonBody}
                   \cup {ErrorsBody(l) : l \in ErrorLists}}

\* Seconds from the start of one attempt to the start of the next: the
\* failed request and the exponential wait with jitter (line 196).
Delays == {1, 30}

\* line 452: the name the module runs under ("__main__" as a script).
ModuleNames == {"__main__", "_main_"}

\* --interval (line 456), in seconds.
Intervals == {DEFAULT_CHECK_INTERVAL_SECONDS}

\* --interval 0, and the default.
IntervalsWithZero == {0, DEFAULT_CHECK_INTERVAL_SECONDS}

\* line 21: the module global API_KEY; line 242 tests it for truth.  NoKey
\* is the value of an unset credential (None, or the empty string).
API_KEY_LITERAL == "b350fb40-937c-4ec5-a68e-3f3671e096d8"
NoKey == ""

(* ------------------------------- state -------------------------------- *)
VARIABLES
    pc,                     \* "idle" or the loop check_for_opportunities is in
    cycles,                 \* calls of check_for_opportunities so far
    PERSISTENT_REPORTED_OPPORTUNITIES,
    printed,                \* key -> console reports printed (402-422)
    sink_calls,             \* key -> calls of place_bet made (424)
    \* locals of the current (or, when idle, the last) call
    fetch_successful, num_fetched, idx, races_in_time_window, wi,
    race_data, runners_left, runner_data, betfair_lay_price,
    bookmaker_markets_data, mi, new_opportunities_found_count,
    \* what the call produced
    ret,                    \* value returned by the last call
    ended,                  \* "none", "running", "returned", "aborted", "except"
    added,                  \* keys the call added to the store
    cycle_out,              \* Opportunities the call emitted, in order
    e2e,                    \* observer of the end-to-end scenario
    records,                \* records of the response read by the call so far
    \* the pagination loop (249-281) and the retry loop of the decorator
    current_offset, page_num,
    tries,                  \* attempts made for the current page
    elapsed,                \* seconds since the first attempt, at the last one
    page_sizes,             \* sizes of the pages fetched by the call, in order
    last_exc,               \* the exception the last failed attempt raised
    response,               \* the response the last attempt got
    \* the script (451-528)
    module_name,            \* __name__
    API_KEY,                \* the module global of line 21
    stdout_ok,              \* sys.stdout can encode every name of a report
    runners_complete,       \* every runner record has an 'id' and a 'name'
    notifier,               \* phase2.py: a call of create_betmatic_notification
    exit_status,            \* <<>> while the process runs, then <<status>>
    lp,                     \* "module", "exited", "tick", "cycle", "sleep",
                            \* "Stopped"
    interval,               \* args.interval
    time_spent, sleep_time, \* lines 511-512
    sigint                  \* KeyboardInterrupts delivered

globals == <<PERSISTENT_REPORTED_OPPORTUNITIES, printed, sink_calls>>
locals  == <<fetch_successful, num_fetched, idx, races_in_time_window, wi,
             race_data, runners_left, runner_data, betfair_lay_price,
             bookmaker_markets_data, mi, new_opportunities_found_count>>
outcome == <<ret, ended, added, cycle_out>>
fetcher == <<current_offset, page_num, tries, elapsed, page_sizes, last_exc,
             response>>
environment == <<module_name, interval, API_KEY, stdout_ok, runners_complete>>
\* What no step of phase1.py changes: its environment, and phase2.py.
setup   == <<environment, notifier>>
script  == <<setup, lp, time_spent, sleep_time, sigint, exit_status>>
vars    == <<pc, cycles, globals, locals, outcome, e2e, records, fetcher,
             script>>

NoRace   == [id |-> "", status |-> "", startTime |-> Null, meeting |-> Meeting]
NoRunner == [id |-> NoId, name |-> "N/A", scratchedTime |-> Null,
             betfairMarkets |-> NotAList]

(* ------------------- phase2.py: the Betmatic notifier ------------------ *)
\* A string member of a reply that is a JSON null.
NullStr == "<null>"

\* str.upper() and str.lower() on the strings of the model; the others are
\* in upper case already.
upper(str) ==
    CASE str = "Galloping"    -> "GALLOPING"
      [] str = "Harness"      -> "HARNESS"
      [] str = "Greyhounds"   -> "GREYHOUNDS"
      [] str = "Greyhound"    -> "GREYHOUND"
      [] str = "Thoroughbred" -> "THOROUGHBRED"
      [] str = "Trots"        -> "TROTS"
      [] OTHER                -> str

lower_title(str) ==
    CASE str = "Sportsbet" -> "sportsbet"
      [] str = "Tab"       -> "tab"
      [] str = "TAB"       -> "tab"
      [] OTHER             -> str

\* Python's  sub in s  for the locations and competition names of the model.
location_in(location, name) ==
    \/ location = "QLD" /\ name = "ALBION PARK (QLD)"
    \/ location = "NSW" /\ name = "MENANGLE (NSW)"

\* What requests.get or requests.post followed by raise_for_status gives:
\* a RequestException (no connection, or a 4xx/5xx status), or a reply
\* whose JSON body is a list of records.
NoReply        == [ok |-> FALSE, items |-> <<>>]
Reply(items)   == [ok |-> TRUE, items |-> items]

\* What a function of phase2.py gives: a value, None, or an exception.
Returned(value) == [kind |-> "value", value |-> value]
ReturnedNone    == [kind |-> "None", value |-> <<>>]
Raised          == [kind |-> "raised", value |-> <<>>]

\* lines 107-109
normalized_phase1_race_type(race_type) ==
    IF upper(race_type) = "GREYHOUND" THEN "GREYHOUNDS" ELSE upper(race_type)

\* lines 101-124: the loop over the competitions.  upper() of a null name
\* or code raises AttributeError (lines 102-103).
RECURSIVE competition_scan(_, _, _)
competition_scan(competitions, i, data) ==
    IF i > Len(competitions) THEN ReturnedNone                   \* line 124
    ELSE LET comp == competitions[i] IN
      IF comp.name = NullStr \/ comp.code = NullStr THEN Raised
      ELSE IF /\ location_in(upper(data.Location), upper(comp.name))
              /\ normalized_phase1_race_type(data.RaceType) = upper(comp.code)
              /\ comp.event_number = data.RaceNo
      THEN Returned(<<comp.name, comp.event_number>>)            \* lines 118-122
      ELSE competition_scan(competitions, i + 1, data)

\* lines 82-127
get_betmatic_competition_details(reply, data) ==
    IF ~reply.ok THEN ReturnedNone                               \* lines 125-127
    ELSE competition_scan(reply.items, 1, data)

\* lines 141-146: the loop over the bookies.
RECURSIVE bookie_scan(_, _, _)
bookie_scan(bookies, i, name) ==
    IF i > Len(bookies) THEN ReturnedNone                        \* line 146
    ELSE LET bookie == bookies[i] IN
      IF bookie.title = NullStr THEN Raised                      \* line 142
      ELSE IF lower_title(bookie.title) = lower_title(name)
      THEN Returned(<<bookie.id>>)                               \* line 144
      ELSE bookie_scan(bookies, i + 1, name)

\* lines 129-149
get_betmatic_bookie_id(reply, name) ==
    IF ~reply.ok THEN ReturnedNone                               \* lines 147-149
    ELSE bookie_scan(reply.items, 1, name)

\* lines 216-227: the payload's code after validation, or None.
valid_codes == {"Galloping", "Harness", "Greyhounds"}

normalized_code(code) ==
    IF code \in valid_codes THEN code
    ELSE IF code = "Greyhound" THEN "Greyhounds"
    ELSE IF code = "Thoroughbred" THEN "Galloping"
    ELSE code

\* The endpoints (lines 11-15).
COMPETITION_NAMECODES_ENDPOINT == "/competition/namecodes/"
BOOKIE_NAMES_ENDPOINT          == "/bookie/names/"
NOTIFICATION_CREATE_ENDPOINT   == "/notification/create/"

\* The opportunity_data a caller passes.
RaceTypes ==
    {"Galloping", "Harness", "Greyhounds", "Greyhound", "Thoroughbred", "Trots"}

OpportunityData ==
    [Location : {"QLD"}, RaceType : RaceTypes, RaceNo : {1},
     BookmakerName : {"Sportsbet", "Tab"},
     BookmakerPrice : {Num(250), Text}]

\* Replies of /competition/namecodes/.
Competition(name, code, event_number) ==
    [name |-> name, code |-> code, event_number |-> event_number]

CompetitionReplies ==
    {NoReply, Reply(<<>>)}
    \cup {Reply(<<Competition("ALBION PARK (QLD)", code, 1)>>) :
            code \in {"Galloping", "Harness", "Greyhounds", "Thoroughbred", "Trots"}}
    \cup {Reply(<<Competition("MENANGLE (NSW)", "Harness", 1),
                  Competition("ALBION PARK (QLD)", "Harness", 3)>>),
          Reply(<<Competition(NullStr, "Greyhounds", 1)>>),
          Reply(<<Competition("ALBION PARK (QLD)", "Greyhounds", 1),
                  Competition(NullStr, "Greyhounds", 1)>>)}

\* Replies of /bookie/names/.
BookieReplies ==
    {NoReply, Reply(<<>>),
     Reply(<<[id |-> 7, title |-> "Sportsbet"]>>),
     Reply(<<[id |-> 7, title |-> "Sportsbet"], [id |-> 9, title |-> "TAB"]>>),
     Reply(<<[id |-> 3, title |-> NullStr]>>)}

\* Replies of /notification/create/.
CreateReplies == {NoReply, Reply(<<>>)}

\* The state of one call of create_betmatic_notification: where it is, its
\* argument, its locals, the requests sent so far, and how it ended.
Notifier(at, data) ==
    [at |-> at, opportunity_data |-> data,
     competition_details |-> ReturnedNone, betmatic_bookie_id |-> ReturnedNone,
     code |-> "", requests |-> <<>>, result |-> <<>>]

NoOpportunityData ==
    [Location |-> "", RaceType |-> "", RaceNo |-> 0, BookmakerName |-> "",
     BookmakerPrice |-> Null]

\* No call is made.
NotifierIdle == Notifier("idle", NoOpportunityData)

\* The state after the module's definitions have run (lines 1-449).
Start ==
    /\ pc = "idle"
    /\ cycles = 0
    /\ PERSISTENT_REPORTED_OPPORTUNITIES = {}        \* line 48
    /\ printed = [k \in Keys |-> 0]
    /\ sink_calls = [k \in Keys |-> 0]
    /\ fetch_successful = TRUE
    /\ num_fetched = 0
    /\ idx = 0
    /\ races_in_time_window = <<>>
    /\ wi = 0
    /\ race_data = NoRace
    /\ runners_left = 0
    /\ runner_data = NoRunner
    /\ betfair_lay_price = Null
    /\ bookmaker_markets_data = <<>>
    /\ mi = 0
    /\ new_opportunities_found_count = 0
    /\ ret = 0
    /\ ended = "none"
    /\ added = {}
    /\ cycle_out = <<>>
    /\ e2e = "start"
    /\ records = 0
    /\ current_offset = 0
    /\ page_num = 1
    /\ tries = 0
    /\ elapsed = 0
    /\ page_sizes = <<>>
    /\ last_exc = NoExc
    /\ response = NoResponse
    /\ module_name \in ModuleNames
    /\ lp = "module"
    /\ time_spent = 0
    /\ sleep_time = 0
    /\ sigint = 0
    /\ exit_status = <<>>

Init ==
    /\ Start
    /\ interval \in Intervals                        \* the command line
    /\ API_KEY = API_KEY_LITERAL                     \* line 21
    /\ stdout_ok = TRUE
    /\ runners_complete = TRUE
    /\ notifier = NotifierIdle

\* phase2.py: create_betmatic_notification is called; phase1.py is not run.
InitNotify ==
    /\ Start
    /\ interval \in Intervals
    /\ API_KEY = API_KEY_LITERAL
    /\ stdout_ok = TRUE
    /\ runners_complete = TRUE
    /\ notifier \in {Notifier("competition", data) : data \in OpportunityData}

\* The provider returns runner records without 'id' or 'name' too.
InitRunners ==
    /\ Start
    /\ interval \in Intervals
    /\ API_KEY = API_KEY_LITERAL
    /\ stdout_ok = TRUE
    /\ runners_complete = FALSE
    /\ notifier = NotifierIdle

\* The credential unset, or a console whose encoding cannot write every
\* name of a report (print raises UnicodeEncodeError at line 415).
InitFaults ==
    /\ Start
    /\ interval \in Intervals
    /\ \/ API_KEY = NoKey /\ stdout_ok = TRUE
       \/ API_KEY = API_KEY_LITERAL /\ stdout_ok = FALSE
    /\ runners_complete = TRUE
    /\ notifier = NotifierIdle

\* The interval given as 0 on the command line, or left to its default.
InitInterval ==
    /\ Start
    /\ interval \in IntervalsWithZero
    /\ API_KEY = API_KEY_LITERAL
    /\ stdout_ok = TRUE
    /\ runners_complete = TRUE
    /\ notifier = NotifierIdle

(* ------------------- observer of the end-to-end scenario -------------- *)
\* The scenario's input: one Open race 10 minutes away, one unscratched
\* runner, win-market lay 2.40, one target bookmaker market at 2.50.
ScenarioRace ==
    [id |-> "r1", status |-> "Open", startTime |-> Iso(600), meeting |-> Meeting]
ScenarioRunner ==
    [id |-> "h1", name |-> "name", scratchedTime |-> Null,
     betfairMarkets |-> List(<<BetfairMarket(STR_Win, <<Num(240)>>)>>)]
ScenarioMarkets == <<[bookmaker |-> "Sportsbet", fixedWin |-> FixedWin(Num(250))]>>

\* The same runner with two target bookmaker markets at or above the lay:
\* two candidates, which the provider returns in every cycle.
PersistMarkets ==
    <<[bookmaker |-> "Sportsbet", fixedWin |-> FixedWin(Num(250))],
      [bookmaker |-> "Tab", fixedWin |-> FixedWin(Num(240))]>>

\* e2e = "in<n>": the n-th call is running, and every call so far was fed
\* exactly the scenario's data; "ok<n>": that call has ended; "off": not so.
\* "pin<n>" and "pok<n>": the same, for the data with two candidates.
e2e_call(e) ==
    CASE e = "start" -> "in1" [] e = "ok1" -> "in2" [] e = "pok1" -> "pin2"
      [] OTHER -> "off"
e2e_see(e, cond) == IF e \in {"in1", "in2", "pin2"} /\ cond THEN e ELSE "off"
e2e_markets(e, markets) ==
    CASE e \in {"in1", "in2"} /\ markets = ScenarioMarkets -> e
      [] e = "in1" /\ markets = PersistMarkets -> "pin1"
      [] e = "pin2" /\ markets = PersistMarkets -> "pin2"
      [] OTHER -> "off"
e2e_end(e) ==
    CASE e = "in1" -> "ok1" [] e = "in2" -> "ok2"
      [] e = "pin1" -> "pok1" [] e = "pin2" -> "pok2" [] OTHER -> "off"

\* An exception that went to handler h: the loop goes on or the process ends.
Leave(h) ==
    /\ lp' = IF stops_loop(h) THEN "Stopped" ELSE lp
    /\ exit_status' = IF stops_loop(h) THEN <<exit_status_of(h)>> ELSE exit_status

Stay == lp' = lp /\ exit_status' = exit_status

(* ------------------- check_for_opportunities (234-448) ---------------- *)
\* line 242
api_key_missing(key) == key = NoKey

\* Entry, lines 242-258, called from line 497.  Without a key, sys.exit(1)
\* of line 245 raises SystemExit before the try of line 255 is entered.
CallCheck ==
    /\ pc = "idle"
    /\ lp = "tick"
    /\ cycles < MaxCycles
    /\ cycles' = cycles + 1
    /\ LET h == handler_of("SystemExit", FALSE, FALSE, TRUE) IN
       IF api_key_missing(API_KEY)
       THEN /\ pc' = "idle"
            /\ ended' = ended_by(h)
            /\ lp' = IF stops_loop(h) THEN "Stopped" ELSE "cycle"
            /\ exit_status' = IF stops_loop(h) THEN <<exit_status_of(h)>>
                              ELSE exit_status
            /\ e2e' = "off"
       ELSE /\ pc' = "fetch"
            /\ ended' = "running"
            /\ lp' = "cycle"
            /\ exit_status' = exit_status
            /\ e2e' = e2e_call(e2e)
    /\ fetch_successful' = TRUE
    /\ num_fetched' = 0
    /\ current_offset' = 0
    /\ page_num' = 1
    /\ tries' = 0
    /\ elapsed' = 0
    /\ page_sizes' = <<>>
    /\ last_exc' = NoExc
    /\ response' = NoResponse
    /\ idx' = 0
    /\ races_in_time_window' = <<>>
    /\ wi' = 0
    /\ race_data' = NoRace
    /\ runners_left' = 0
    /\ runner_data' = NoRunner
    /\ betfair_lay_price' = Null
    /\ bookmaker_markets_data' = <<>>
    /\ mi' = 0
    /\ new_opportunities_found_count' = 0
    /\ ret' = 0
    /\ added' = {}
    /\ cycle_out' = <<>>
    /\ records' = 0
    /\ time_spent' = 0               \* assigned again at 511 before any use
    /\ sleep_time' = 0               \* assigned again at 512 before any use
    /\ UNCHANGED <<globals, setup, sigint>>

\* lines 264-269 and 283-285: an attempt raised and the decorator does not
\* retry, so execute_graphql_query raised; return 0.
FetchFail ==
    /\ pc = "fetch"
    /\ \E resp \in Responses :
        LET e == execute_graphql_query(resp)
            h == handler_of(e.type, TRUE, TRUE, TRUE)
        IN
        /\ e # NoExc
        /\ backoff_catches(e)
        /\ retry_stops(e, tries + 1, elapsed)
        /\ response' = resp
        /\ last_exc' = e
        /\ IF h = "266"
           THEN /\ fetch_successful' = FALSE             \* line 268
                /\ Stay
                /\ IF aborts_cycle(FALSE)                \* lines 283-285
                   THEN pc' = "idle" /\ ret' = 0 /\ ended' = "aborted"
                   ELSE pc' = "filter" /\ ret' = ret /\ ended' = ended
           ELSE /\ fetch_successful' = fetch_successful
                /\ pc' = "idle"
                /\ ret' = 0
                /\ ended' = ended_by(h)
                /\ Leave(h)
    /\ tries' = tries + 1
    /\ e2e' = "off"
    /\ UNCHANGED <<cycles, globals, num_fetched, idx, races_in_time_window, wi,
                   race_data, runners_left, runner_data, betfair_lay_price,
                   bookmaker_markets_data, mi, new_opportunities_found_count,
                   added, cycle_out, records, current_offset, page_num,
                   elapsed, page_sizes, setup, time_spent,
                   sleep_time, sigint>>

\* An attempt raised and the decorator waits before the next attempt.
FetchRetry ==
    /\ pc = "fetch"
    /\ \E resp \in Responses :
        LET e == execute_graphql_query(resp) IN
        /\ e # NoExc
        /\ backoff_catches(e)
        /\ ~retry_stops(e, tries + 1, elapsed)
        /\ response' = resp
        /\ last_exc' = e
    /\ tries' = tries + 1
    /\ pc' = "backoff"
    /\ e2e' = "off"
    /\ UNCHANGED <<cycles, globals, locals, outcome, records, current_offset,
                   page_num, elapsed, page_sizes, script>>

\* The wait is over: the next attempt starts.
BackoffDone ==
    /\ pc = "backoff"
    /\ \E d \in Delays : elapsed' = min(elapsed + d, max_time)
    /\ pc' = "fetch"
    /\ UNCHANGED <<cycles, globals, locals, outcome, e2e, records,
                   current_offset, page_num, tries, page_sizes, last_exc,
                   response, script>>

\* lines 216-231: an attempt got a response with data and no errors, and
\* execute_graphql_query returns result['data'] to line 265.
FetchOk ==
    /\ pc = "fetch"
    /\ \E resp \in Responses :
        /\ execute_graphql_query(resp) = NoExc
        /\ response' = resp
    /\ tries' = tries + 1
    /\ pc' = "page"
    /\ UNCHANGED <<cycles, globals, locals, outcome, e2e, records,
                   current_offset, page_num, elapsed, page_sizes, last_exc,
                   script>>

\* lines 270-276 and 287-292: the page holds n races, n < PAGE_LIMIT, which
\* ends the pagination loop.
FetchPage ==
    /\ pc = "page"
    /\ \E n \in 0..MaxRaces :
        /\ is_last_page(n)
        /\ records + n <= MaxRecords
        /\ records' = records + n
        /\ num_fetched' = num_fetched + n
        /\ page_sizes' = Append(page_sizes, n)
        /\ e2e' = e2e_see(e2e, n = 1 /\ page_num = 1)
    /\ pc' = "filter"
    /\ tries' = 0                    \* locals of the decorator, gone
    /\ elapsed' = 0
    /\ last_exc' = NoExc
    /\ response' = NoResponse
    /\ UNCHANGED <<cycles, globals, fetch_successful, idx, races_in_time_window,
                   wi, race_data, runners_left, runner_data, betfair_lay_price,
                   bookmaker_markets_data, mi, new_opportunities_found_count,
                   outcome, current_offset, page_num, script>>

\* lines 270-280: the page holds PAGE_LIMIT races; the loop goes on to the
\* next page.
FetchFullPage ==
    /\ pc = "page"
    /\ page_num < MaxPages
    /\ ~is_last_page(PAGE_LIMIT)
    /\ num_fetched' = num_fetched + PAGE_LIMIT
    /\ page_sizes' = Append(page_sizes, PAGE_LIMIT)
    /\ page_num' = page_num + 1
    /\ current_offset' = next_offset(current_offset)
    /\ pc' = "fetch"
    /\ tries' = 0                    \* locals of the decorator, gone
    /\ elapsed' = 0
    /\ last_exc' = NoExc
    /\ response' = NoResponse
    /\ e2e' = "off"
    /\ UNCHANGED <<cycles, globals, fetch_successful, idx,
                   races_in_time_window, wi, race_data, runners_left,
                   runner_data, betfair_lay_price, bookmaker_markets_data, mi,
                   new_opportunities_found_count, outcome, records, script>>

\* lines 296-337: one iteration of the filter loop; an exception it raises
\* goes to lines 446-448.
FilterRace ==
    /\ pc = "filter"
    /\ idx < num_fetched
    /\ \E race \in (IF idx < current_offset THEN FullPageRaces ELSE Races) :
        LET h == handler_of("AttributeError", FALSE, TRUE, TRUE) IN
        /\ race_data' = race
        /\ IF status_active(race.status) /\ start_time_raises(race.startTime)
           THEN /\ pc' = "idle"                          \* lines 446-448
                /\ ret' = 0
                /\ ended' = ended_by(h)
                /\ Leave(h)
                /\ races_in_time_window' = races_in_time_window
                /\ e2e' = "off"
           ELSE /\ races_in_time_window' =
                     IF race_kept(race) THEN Append(races_in_time_window, race)
                     ELSE races_in_time_window
                /\ e2e' = e2e_see(e2e, race = ScenarioRace)
                /\ Stay
                /\ UNCHANGED <<pc, ret, ended>>
    /\ idx' = idx + 1
    /\ UNCHANGED <<fetcher, setup, time_spent, sleep_time,
                   sigint>>
    /\ UNCHANGED <<cycles, globals, fetch_successful, num_fetched, wi,
                   runners_left, runner_data, betfair_lay_price,
                   bookmaker_markets_data, mi, new_opportunities_found_count,
                   added, cycle_out, records>>

\* line 341: the filter loop is exhausted.
FilterDone ==
    /\ pc = "filter"
    /\ idx = num_fetched
    /\ pc' = "races"
    /\ race_data' = NoRace           \* reassigned at line 345 before any use
    \* all_fetched_races and the pagination locals are not read again
    /\ num_fetched' = 0
    /\ idx' = 0
    /\ current_offset' = 0
    /\ page_num' = 1
    /\ page_sizes' = <<>>
    /\ UNCHANGED <<tries, elapsed, last_exc, response, script>>
    /\ UNCHANGED <<cycles, globals, fetch_successful,
                   races_in_time_window, wi, runners_left, runner_data,
                   betfair_lay_price, bookmaker_markets_data, mi,
                   new_opportunities_found_count, outcome, e2e, records>>

\* line 351: the f-string evaluates race_data.get('meeting', {}).get('track');
\* the default {} stands in for an absent key only, a null gives None.get.
meeting_track_raises(meeting) == ~meeting.is_dict

\* lines 344-353: next race of the window; its 'runners' list has nr items.
\* An exception of line 351 goes to lines 446-448.
RaceStep ==
    /\ pc = "races"
    /\ wi < Len(races_in_time_window)
    /\ wi' = wi + 1
    /\ race_data' = races_in_time_window[wi + 1]
    /\ LET h == handler_of("AttributeError", FALSE, TRUE, TRUE) IN
       IF meeting_track_raises(races_in_time_window[wi + 1].meeting)
       THEN /\ pc' = "idle"
            /\ ret' = 0
            /\ ended' = ended_by(h)
            /\ Leave(h)
            /\ e2e' = "off"
            /\ UNCHANGED <<records, runners_left>>
       ELSE /\ \E nr \in 0..MaxRunners :
                /\ records + nr <= MaxRecords
                /\ records' = records + nr
                /\ runners_left' = nr
                /\ pc' = "runners"
                /\ e2e' = e2e_see(e2e, nr = 1)
            /\ Stay
            /\ UNCHANGED <<ret, ended>>
    /\ UNCHANGED <<fetcher, setup, time_spent, sleep_time, sigint>>
    /\ UNCHANGED <<cycles, globals, fetch_successful, num_fetched, idx,
                   races_in_time_window, runner_data, betfair_lay_price,
                   bookmaker_markets_data, mi, new_opportunities_found_count,
                   added, cycle_out>>

\* lines 441-444: the race loop is exhausted; return the count.
ReturnCount ==
    /\ pc = "races"
    /\ wi = Len(races_in_time_window)
    /\ pc' = "idle"
    /\ ret' = new_opportunities_found_count
    /\ ended' = "returned"
    /\ e2e' = e2e_end(e2e)
    /\ UNCHANGED <<fetcher, script>>
    /\ UNCHANGED <<cycles, globals, locals, added, cycle_out, records>>

\* lines 355-370: one iteration of the runner loop, up to the market loop.
RunnerStep ==
    /\ pc = "runners"
    /\ runners_left > 0
    /\ \E runner \in ProviderRunners(runners_complete) :
        LET left == runners_left - 1
            lay  == get_betfair_lay_price(runner)
            skip == /\ pc' = "next_runner"
                    /\ ret' = ret
                    /\ ended' = ended
                    /\ Stay
                    /\ records' = records
        IN
        /\ runner_data' = runner
        /\ runners_left' = left
        /\ mi' = 0
        /\ IF runner_unidentified(runner) \/ is_scratched(runner)
           THEN /\ skip                                  \* lines 360-361
                /\ betfair_lay_price' = Null
                /\ bookmaker_markets_data' = <<>>
                /\ e2e' = e2e_see(e2e, runner = ScenarioRunner)
           ELSE IF lay.exc
           THEN /\ pc' = "idle"                          \* lines 446-448
                /\ ret' = 0
                /\ ended' = ended_by(handler_of("AttributeError", FALSE, TRUE, TRUE))
                /\ Leave(handler_of("AttributeError", FALSE, TRUE, TRUE))
                /\ records' = records
                /\ betfair_lay_price' = Null
                /\ bookmaker_markets_data' = <<>>
                /\ e2e' = "off"
           ELSE IF lay.price.k = "null"
           THEN /\ skip                                  \* lines 365-367
                /\ betfair_lay_price' = Null
                /\ bookmaker_markets_data' = <<>>
                /\ e2e' = e2e_see(e2e, runner = ScenarioRunner)
           ELSE /\ betfair_lay_price' = lay.price
                /\ \E markets \in SeqsUpTo(BookmakerMarkets, MaxMarkets) :
                    /\ records + Len(markets) <= MaxRecords
                    /\ records' = records + Len(markets)
                    /\ bookmaker_markets_data' = markets  \* line 369
                    /\ pc' = IF markets = <<>> THEN "next_runner"
                             ELSE "markets"               \* line 370
                    /\ e2e' = IF runner = ScenarioRunner
                              THEN e2e_markets(e2e, markets) ELSE "off"
                /\ ret' = ret
                /\ ended' = ended
                /\ Stay
    /\ UNCHANGED <<fetcher, setup, time_spent, sleep_time,
                   sigint>>
    /\ UNCHANGED <<cycles, globals, fetch_successful, num_fetched, idx,
                   races_in_time_window, wi, race_data,
                   new_opportunities_found_count, added, cycle_out>>

\* The Opportunity of lines 393-424: its key, the two prices, and the
\* records it was detected in.
Opportunity(race, runner, market, bookmaker_price, lay_price) ==
    [key |-> opportunity_key(race, runner, market),
     race |-> race, runner |-> runner, market |-> market,
     bookmaker_price |-> bookmaker_price, betfair_lay_price |-> lay_price]

\* line 424: place_bet(track, race_number, runner_number, bookmaker_name,
\* betfair_lay_price, bookmaker_price), six positional arguments.
place_bet_args(market, bookmaker_price, lay_price) ==
    <<"track", "race_number", "runner_number", market.bookmaker,
      lay_price, bookmaker_price>>

\* lines 402-422: the report is written to sys.stdout; a name the console's
\* encoding cannot write raises at line 415, after the two header lines.
print_report(encodable) == IF encodable THEN "ok" ELSE "UnicodeEncodeError"

\* Whether the names of a report can be written: always, or depending on
\* the names, which the records of the model do not carry.
Encodable(ok) == IF ok THEN {TRUE} ELSE BOOLEAN

\* lines 372-436: one iteration of the bookmaker-market loop.
MarketStep ==
    /\ pc = "markets"
    /\ LET market_data == bookmaker_markets_data[mi + 1]
           bookmaker_price == bookmaker_price_of(market_data)
           lay == betfair_lay_price.n
           key == opportunity_key(race_data, runner_data, market_data)
           next == IF mi + 1 = Len(bookmaker_markets_data)
                   THEN "next_runner" ELSE "markets"
           h == handler_of(place_bet(place_bet_args(market_data,
                              bookmaker_price.n, lay)), FALSE, TRUE, TRUE)
           hp == handler_of("UnicodeEncodeError", FALSE, TRUE, TRUE)
           continue == /\ pc' = next
                       /\ Stay
                       /\ UNCHANGED <<globals, new_opportunities_found_count,
                                      outcome, e2e>>
       IN
       /\ mi' = mi + 1
       /\ IF ~is_target_bookmaker(market_data.bookmaker) THEN continue
          ELSE IF ~bookmaker_price.ok THEN continue
          ELSE IF ~is_opportunity(bookmaker_price.n, lay) THEN continue
          ELSE IF ~not_reported(key, PERSISTENT_REPORTED_OPPORTUNITIES)
          THEN continue
          ELSE
            /\ PERSISTENT_REPORTED_OPPORTUNITIES' =
                 store_add(PERSISTENT_REPORTED_OPPORTUNITIES, key)
            /\ new_opportunities_found_count' = new_opportunities_found_count + 1
            /\ added' = added \cup {key}
            /\ \E encodable \in Encodable(stdout_ok) :
               IF print_report(encodable) # "ok"
               THEN /\ pc' = "idle"                      \* lines 446-448
                    /\ ret' = 0
                    /\ ended' = ended_by(hp)
                    /\ Leave(hp)
                    /\ e2e' = "off"
                    /\ UNCHANGED <<printed, cycle_out, sink_calls>>
               ELSE /\ printed' = [printed EXCEPT ![key] = @ + 1]
                    /\ cycle_out' = Append(cycle_out,
                         Opportunity(race_data, runner_data, market_data,
                                     bookmaker_price.n, lay))
                    /\ sink_calls' = [sink_calls EXCEPT ![key] = @ + 1]
                    /\ IF place_bet(place_bet_args(market_data,
                                       bookmaker_price.n, lay)) = "ok"
                       THEN /\ pc' = next                \* lines 426-435
                            /\ Stay
                            /\ UNCHANGED <<ret, ended, e2e>>
                       ELSE /\ pc' = "idle"              \* lines 446-448
                            /\ ret' = 0
                            /\ ended' = ended_by(h)
                            /\ Leave(h)
                            /\ e2e' = e2e_end(e2e)
    /\ UNCHANGED <<fetcher, setup, time_spent, sleep_time,
                   sigint>>
    /\ UNCHANGED <<cycles, fetch_successful, num_fetched, idx,
                   races_in_time_window, wi, race_data, runners_left,
                   runner_data, betfair_lay_price, bookmaker_markets_data,
                   records>>

\* A runner's iteration has ended (a continue of lines 360-370, or the
\* market loop is exhausted): back to the head of the runner loop.  The
\* runner's locals are dead there, each is assigned again before it is read.
NextRunner ==
    /\ pc = "next_runner"
    /\ pc' = "runners"
    /\ runner_data' = NoRunner
    /\ betfair_lay_price' = Null
    /\ bookmaker_markets_data' = <<>>
    /\ mi' = 0
    /\ UNCHANGED <<fetcher, script>>
    /\ UNCHANGED <<cycles, globals, fetch_successful, num_fetched, idx,
                   races_in_time_window, wi, race_data, runners_left,
                   new_opportunities_found_count, outcome, e2e, records>>

\* line 355: the runner loop is exhausted (or line 353: no runners).
RunnersDone ==
    /\ pc = "runners"
    /\ runners_left = 0
    /\ pc' = "races"
    /\ UNCHANGED <<fetcher, script>>
    /\ UNCHANGED <<cycles, globals, locals, outcome, e2e, records>>

(* -------------------- the script (lines 451-528) ---------------------- *)
\* line 452
is_main(name) == name = "_main_"

\* lines 460-464: the elif is tested only when the if is false.
interval_rejected(i) == ~(i <= 1) /\ i <= 0

\* line 512
sleep_time_raw(i, spent) == i - spent

sleep_time_of(i, spent) == max(0, i - spent)

\* The PollLoop is Running from the while of line 490 until an exception
\* leaves it.
Running == lp \in {"tick", "cycle", "sleep"}
Stopped == lp = "Stopped"

\* The frame of a call that has ended (returned, or left by an exception)
\* is gone.
ClearLocals ==
    /\ fetch_successful' = TRUE
    /\ num_fetched' = 0
    /\ idx' = 0
    /\ races_in_time_window' = <<>>
    /\ wi' = 0
    /\ race_data' = NoRace
    /\ runners_left' = 0
    /\ runner_data' = NoRunner
    /\ betfair_lay_price' = Null
    /\ bookmaker_markets_data' = <<>>
    /\ mi' = 0
    /\ new_opportunities_found_count' = 0
    /\ current_offset' = 0
    /\ page_num' = 1
    /\ tries' = 0
    /\ elapsed' = 0
    /\ page_sizes' = <<>>
    /\ last_exc' = NoExc
    /\ response' = NoResponse

ClearFrame == ClearLocals /\ records' = 0

\* lines 452-486: the module has been loaded; run the script part or not.
EntryPoint ==
    /\ lp = "module"
    /\ lp' = IF is_main(module_name) /\ ~interval_rejected(interval)
             THEN "tick" ELSE "exited"
    /\ exit_status' = IF ~is_main(module_name) THEN <<0>>       \* end of file
                      ELSE IF interval_rejected(interval)
                      THEN <<exit_status_of("uncaught")>>       \* line 464
                      ELSE exit_status
    /\ UNCHANGED <<pc, cycles, globals, locals, outcome, e2e, records, fetcher,
                   setup, time_spent, sleep_time, sigint>>

\* lines 500-517: the call of line 497 has returned; measure and sleep.
LoopAfter ==
    /\ lp = "cycle"
    /\ pc = "idle"
    /\ \E spent \in 0..MaxElapsed :
        /\ time_spent' = spent
        /\ sleep_time' = sleep_time_of(interval, spent)
        /\ lp' = IF sleep_time_of(interval, spent) > 0 THEN "sleep" ELSE "tick"
    /\ ClearFrame
    /\ UNCHANGED <<pc, cycles, globals, outcome, e2e, setup, sigint,
                   exit_status>>

\* line 516: time.sleep(sleep_time) returns.
SleepDone ==
    /\ lp = "sleep"
    /\ lp' = "tick"
    /\ UNCHANGED <<pc, cycles, globals, locals, outcome, e2e, records, fetcher,
                   setup, time_spent, sleep_time, sigint, exit_status>>

\* Ctrl+C: a KeyboardInterrupt is raised at the statement the loop is at and
\* goes to the innermost handler that catches it: line 266 inside the
\* pagination loop, line 446 inside check_for_opportunities, line 503 around
\* the call, line 519 around the loop.
Interrupt ==
    /\ Running
    /\ sigint = 0
    /\ sigint' = 1
    /\ LET h == handler_of("KeyboardInterrupt", pc \in {"fetch", "backoff"},
                           pc # "idle", lp = "cycle")
       IN
       IF h = "266"                                  \* 266-269, 283-285
       THEN /\ pc' = "idle"
            /\ fetch_successful' = FALSE
            /\ ret' = 0
            /\ ended' = "aborted"
            /\ Stay
            /\ UNCHANGED <<num_fetched, idx, races_in_time_window, wi,
                           race_data, runners_left, runner_data,
                           betfair_lay_price, bookmaker_markets_data, mi,
                           new_opportunities_found_count, fetcher>>
       ELSE IF ~stops_loop(h)                        \* 446-448 or 503-507
       THEN /\ pc' = "idle"
            /\ ret' = 0
            /\ ended' = IF pc # "idle" THEN ended_by(h) ELSE ended
            /\ Stay
            /\ UNCHANGED <<locals, fetcher>>
       ELSE /\ Leave(h)                              \* 519-523
            /\ pc' = "idle"
            /\ ended' = IF pc # "idle" THEN ended_by(h) ELSE ended
            /\ ret' = ret
            /\ ClearLocals           \* the frame of an interrupted call is gone
    /\ e2e' = "off"
    /\ UNCHANGED <<cycles, globals, added, cycle_out, records, setup,
                   time_spent, sleep_time>>

Next ==
    \/ EntryPoint
    \/ CallCheck
    \/ FetchFail
    \/ FetchRetry
    \/ BackoffDone
    \/ FetchOk
    \/ FetchPage
    \/ FetchFullPage
    \/ FilterRace
    \/ FilterDone
    \/ RaceStep
    \/ ReturnCount
    \/ RunnerStep
    \/ NextRunner
    \/ RunnersDone
    \/ MarketStep
    \/ LoopAfter
    \/ SleepDone
    \/ Interrupt

Spec == Init /\ [][Next]_vars

\* The process is one thread that takes its next step whenever it has one
\* (a Ctrl+C is one of the steps).
SpecLive == Init /\ [][Next]_vars /\ WF_vars(Next)

\* The program in an environment without the credential, or with a console
\* that cannot write a report.
SpecFaults == InitFaults /\ [][Next]_vars

\* The program started with --interval 0.
SpecInterval == InitInterval /\ [][Next]_vars

\* The program fed runner records without 'id' or 'name'.
SpecRunners == InitRunners /\ [][Next]_vars

(* ------------- phase2.py: create_betmatic_notification (152-255) ------- *)
scanner == <<pc, cycles, globals, locals, outcome, e2e, records, fetcher,
             environment, lp, time_spent, sleep_time, sigint, exit_status>>

\* How a call ends.
Ends(n, result) == [n EXCEPT !.at = "done", !.result = <<result>>]

\* lines 166-175: the competition lookup, and the test of its result.
CompetitionLookup ==
    /\ notifier.at = "competition"
    /\ \E reply \in CompetitionReplies :
        LET details == get_betmatic_competition_details(reply, notifier.opportunity_data)
            sent == [notifier EXCEPT
                       !.requests = Append(@, COMPETITION_NAMECODES_ENDPOINT),
                       !.competition_details = details]
        IN
        notifier' = CASE details.kind = "raised" -> Ends(sent, "raised")
                      [] details.kind = "None"   -> Ends(sent, "None")
                      [] OTHER -> [sent EXCEPT !.at = "bookie"]
    /\ UNCHANGED scanner

\* lines 183-186: the bookie lookup, and the test of its result.
BookieLookup ==
    /\ notifier.at = "bookie"
    /\ \E reply \in BookieReplies :
        LET id == get_betmatic_bookie_id(reply, notifier.opportunity_data.BookmakerName)
            sent == [notifier EXCEPT
                       !.requests = Append(@, BOOKIE_NAMES_ENDPOINT),
                       !.betmatic_bookie_id = id]
        IN
        notifier' = CASE id.kind = "raised" -> Ends(sent, "raised")
                      [] id.kind = "None"   -> Ends(sent, "None")
                      [] OTHER -> [sent EXCEPT !.at = "payload"]
    /\ UNCHANGED scanner

\* lines 190-227: the payload is built (float() of line 207 raises for a
\* price that is not a number) and its code validated.
BuildPayload ==
    /\ notifier.at = "payload"
    /\ LET code == normalized_code(notifier.opportunity_data.RaceType) IN
       notifier' =
         IF ~float(notifier.opportunity_data.BookmakerPrice).ok
         THEN Ends(notifier, "raised")
         ELSE IF code \notin valid_codes
         THEN Ends([notifier EXCEPT !.code = code], "None")      \* line 227
         ELSE [notifier EXCEPT !.code = code, !.at = "send"]
    /\ UNCHANGED scanner

\* lines 233-255: the create request.
SendCreate ==
    /\ notifier.at = "send"
    /\ \E reply \in CreateReplies :
        LET sent == [notifier EXCEPT
                       !.requests = Append(@, NOTIFICATION_CREATE_ENDPOINT)]
        IN
        notifier' = IF reply.ok THEN Ends(sent, "json")          \* line 244
                    ELSE Ends(sent, "None")                      \* lines 245-255
    /\ UNCHANGED scanner

NextNotify ==
    \/ CompetitionLookup
    \/ BookieLookup
    \/ BuildPayload
    \/ SendCreate

\* phase2.py's create_betmatic_notification, called once.
SpecNotify == InitNotify /\ [][NextNotify]_vars

(* ============================ the claims ============================== *)
\* A candidate, as the specification defines it: a bookmaker market of a
\* runner of a race that passes every filter, priced at or above the lay.
HasNumericPrice(market) ==
    /\ market.fixedWin.is_dict
    /\ market.fixedWin.price.k \in {"num", "numstr"}

Qualifies(race, runner, market) ==
    /\ race.status \in {"Open", "Suspended"}
    /\ race.startTime.k = "iso"
    /\ race.startTime.n >= 2 * 60
    /\ race.startTime.n <= 15 * 60
    /\ runner.id # NoId
    /\ runner.scratchedTime = Null
    /\ ~get_betfair_lay_price(runner).exc
    /\ get_betfair_lay_price(runner).price.k = "num"
    /\ market.bookmaker \in {"Sportsbet", "Tab", "Boombet", "Tabtouch"}
    /\ HasNumericPrice(market)
    /\ market.fixedWin.price.n > 0
    /\ market.fixedWin.price.n >= get_betfair_lay_price(runner).price.n

\* The candidate keys among the bookmaker markets of the runner the call is
\* at (when idle: was at when it ended).
FrameCandidates ==
    {opportunity_key(race_data, runner_data, bookmaker_markets_data[i]) :
        i \in {j \in DOMAIN bookmaker_markets_data :
                 Qualifies(race_data, runner_data, bookmaker_markets_data[j])}}

CallEnded == pc = "idle" /\ ended \in {"returned", "aborted", "except"}

\* C1 (as claimed): when a cycle has ended, every key that qualified in it
\* has been emitted exactly once since the process started.
C1_ExactlyOncePerQualifyingKey ==
    CallEnded => \A k \in FrameCandidates : printed[k] = 1

\* C2: every step leaves the deduplication store a superset of what it was.
C2_StoreGrowsMonotonically ==
    [][PERSISTENT_REPORTED_OPPORTUNITIES \subseteq PERSISTENT_REPORTED_OPPORTUNITIES']_vars

\* A cycle's page fetch failed while the store already held a key.
C2_Witness ==
    /\ pc = "idle"
    /\ ended = "aborted"
    /\ PERSISTENT_REPORTED_OPPORTUNITIES # {}

ScenarioKey == opportunity_key(ScenarioRace, ScenarioRunner, ScenarioMarkets[1])
C4_EndToEndScenario ==
    /\ e2e = "ok1" =>
        /\ Len(cycle_out) = 1
        /\ cycle_out[1].key = ScenarioKey
        /\ cycle_out[1].bookmaker_price = 250
        /\ cycle_out[1].betfair_lay_price = 240
    /\ e2e = "ok2" => cycle_out = <<>>
    /\ e2e \in {"ok1", "ok2"} =>
        \A k \in Keys : printed[k] = IF k = ScenarioKey THEN 1 ELSE 0

\* Two cycles over the scenario's data have ended.
C4_Witness == e2e = "ok2" /\ pc = "idle" /\ cycles = 2

\* C5 (as claimed): the value a call returns is the number of keys it added
\* to the store, which is the number of Opportunities it emitted.
C5_ReturnsNumberEmitted ==
    CallEnded => ret = Cardinality(added) /\ ret = Len(cycle_out)

\* C6 (as claimed): when a cycle whose collection succeeded has ended, every
\* candidate's key is in the store, and each key the cycle added was emitted.
C6_EveryCandidateStored ==
    (CallEnded /\ fetch_successful) =>
        /\ FrameCandidates \subseteq PERSISTENT_REPORTED_OPPORTUNITIES
        /\ \A k \in added : \E i \in DOMAIN cycle_out : cycle_out[i].key = k

\* C7: every Opportunity a call has emitted comes from a race with status
\* Open or Suspended whose start time parsed and lies in the window, from an
\* unscratched runner with a best lay price, and from a market of an
\* allow-listed bookmaker whose fixed price is present, numeric, positive
\* and at least the lay price.
C7_EmittedIsSound ==
    \A i \in DOMAIN cycle_out :
        LET o == cycle_out[i]
            lay == get_betfair_lay_price(o.runner)
        IN
        /\ o.race.status \in {"Open", "Suspended"}
        /\ o.race.startTime.k = "iso"
        /\ MIN_TIME_TO_JUMP * 60 <= o.race.startTime.n
        /\ o.race.startTime.n <= MAX_TIME_TO_JUMP * 60
        /\ o.runner.scratchedTime = Null
        /\ ~lay.exc
        /\ lay.price.k = "num"
        /\ o.betfair_lay_price = lay.price.n
        /\ o.market.bookmaker \in TARGET_BOOKMAKERS_STR
        /\ HasNumericPrice(o.market)
        /\ o.market.fixedWin.price.n > 0
        /\ o.bookmaker_price = o.market.fixedWin.price.n
        /\ o.bookmaker_price >= o.betfair_lay_price

\* An Opportunity was emitted from a Suspended race, for a runner whose first
\* exchange market is a place market.
C7_Witness ==
    \E i \in DOMAIN cycle_out :
        /\ cycle_out[i].race.status = "Suspended"
        /\ Len(cycle_out[i].runner.betfairMarkets.items) = 2

\* C8: the filter loop keeps an active race that starts exactly 2 or exactly
\* 15 minutes from now, and drops one that starts one second less than 2 or
\* one second more than 15 minutes from now.
C8_WindowBoundary ==
    [][(pc = "filter" /\ idx' = idx + 1
        /\ race_data'.status \in {"Open", "Suspended"}
        /\ race_data'.startTime.k = "iso")
       => LET secs == race_data'.startTime.n IN
          /\ secs \in {MIN_TIME_TO_JUMP * 60, MAX_TIME_TO_JUMP * 60}
               => races_in_time_window' = Append(races_in_time_window, race_data')
          /\ secs \in {MIN_TIME_TO_JUMP * 60 - 1, MAX_TIME_TO_JUMP * 60 + 1}
               => races_in_time_window' = races_in_time_window]_vars

\* The filter loop has just kept a race that starts exactly 15 minutes from now.
C8_Witness ==
    /\ pc = "filter"
    /\ idx > 0
    /\ race_data.startTime = Iso(MAX_TIME_TO_JUMP * 60)
    /\ Len(races_in_time_window) > 0
    /\ races_in_time_window[Len(races_in_time_window)] = race_data

\* C9: for a market of an allow-listed bookmaker with a numeric positive
\* price, of a runner that reached the market loop: a price equal to the lay
\* price puts the key in the store and, if the key is new, emits it; a price
\* one hundredth below the lay price adds nothing and emits nothing.
C9_PriceBoundary ==
    [][(pc = "markets" /\ mi' = mi + 1)
       => LET market == bookmaker_markets_data[mi + 1]
              key == opportunity_key(race_data, runner_data, market)
              price == market.fixedWin.price.n
          IN
          (/\ market.bookmaker \in TARGET_BOOKMAKERS_STR
           /\ HasNumericPrice(market)
           /\ price > 0)
          => /\ price = betfair_lay_price.n
               => /\ key \in PERSISTENT_REPORTED_OPPORTUNITIES'
                  /\ key \notin PERSISTENT_REPORTED_OPPORTUNITIES
                       => /\ Len(cycle_out') = Len(cycle_out) + 1
                          /\ cycle_out'[Len(cycle_out')].key = key
             /\ price = betfair_lay_price.n - 1
               => /\ PERSISTENT_REPORTED_OPPORTUNITIES' = PERSISTENT_REPORTED_OPPORTUNITIES
                  /\ cycle_out' = cycle_out]_vars

\* A market priced one hundredth below the lay was passed over, and then a
\* market priced exactly at the lay was emitted.
C9_Witness ==
    /\ mi = 2
    /\ HasNumericPrice(bookmaker_markets_data[1])
    /\ bookmaker_markets_data[1].bookmaker \in TARGET_BOOKMAKERS_STR
    /\ bookmaker_markets_data[1].fixedWin.price.n = betfair_lay_price.n - 1
    /\ Len(cycle_out) = 1
    /\ cycle_out[1].market = bookmaker_markets_data[2]
    /\ cycle_out[1].bookmaker_price = cycle_out[1].betfair_lay_price

\* C10: no emitted Opportunity comes from a runner whose scratchedTime is
\* non-null, every key a call added belongs to an Opportunity it emitted,
\* and a scratched runner's iteration ends before its bookmaker markets are
\* read.
C10_ScratchedExcluded ==
    /\ \A i \in DOMAIN cycle_out : cycle_out[i].runner.scratchedTime = Null
    /\ \A k \in added : \E i \in DOMAIN cycle_out : cycle_out[i].key = k
    /\ runner_data.scratchedTime # Null
         => /\ pc = "next_runner"
            /\ mi = 0
            /\ bookmaker_markets_data = <<>>

\* A runner scratched with an empty-string timestamp, and holding a win
\* market with a lay price, was skipped.
C10_Witness ==
    /\ pc = "next_runner"
    /\ runner_data.scratchedTime = Empty
    /\ get_betfair_lay_price(runner_data).price.k = "num"

(* ------------------- collection: pages and retries -------------------- *)
RECURSIVE SumSeq(_)
SumSeq(q) == IF q = <<>> THEN 0 ELSE q[1] + SumSeq(Tail(q))

\* The pagination loop of the running call is still collecting.
Collecting == pc \in {"fetch", "backoff", "page"}

\* The pagination loop has just ended with a short page.
Collected == pc = "filter" /\ idx = 0

\* C11: while a call collects, the k pages it has fetched were all full,
\* the offset it requests next is k times the page size (0 for the first
\* request of every call) and it holds k full pages of races; when it has
\* collected, the last page is the only short one, the number of fetches is
\* the number of pages and the races held are the sum of all pages, so that
\* pages of sizes P, P, P, k take four fetches and give 3P + k races.
C11_PaginationStopsAtShortPage ==
    /\ Collecting =>
        /\ \A i \in DOMAIN page_sizes : page_sizes[i] = PAGE_LIMIT
        /\ page_num = Len(page_sizes) + 1
        /\ current_offset = Len(page_sizes) * PAGE_LIMIT
        /\ num_fetched = Len(page_sizes) * PAGE_LIMIT
    /\ Collected =>
        /\ page_num = Len(page_sizes)
        /\ \A i \in 1..(Len(page_sizes) - 1) : page_sizes[i] = PAGE_LIMIT
        /\ page_sizes[Len(page_sizes)] < PAGE_LIMIT
        /\ num_fetched = SumSeq(page_sizes)
        /\ Len(page_sizes) = 4 =>
             /\ page_num = 4
             /\ num_fetched = 3 * PAGE_LIMIT + page_sizes[4]

\* The second call of a run has collected three full pages and a page of
\* one race.
C11_Witness ==
    /\ cycles = 2
    /\ Collected
    /\ page_sizes = <<PAGE_LIMIT, PAGE_LIMIT, PAGE_LIMIT, 1>>

\* A response that is HTTP 200 with a 'data' member and no 'errors'.
ValidResponse(resp) ==
    /\ resp.connected
    /\ resp.status = 200
    /\ resp.body.is_json
    /\ ~resp.body.has_errors
    /\ resp.body.has_data

\* A response whose body carries a GraphQL error whose message contains
\* 'Authentication failed.'.
AuthResponse(resp) ==
    /\ resp.connected
    /\ resp.status = 200
    /\ resp.body.is_json
    /\ resp.body.has_errors
    /\ \E i \in DOMAIN resp.body.errors :
          /\ resp.body.errors[i].is_dict
          /\ contains(resp.body.errors[i].message, STR_AuthFailed)

\* The call that is running, or the last one, ended at lines 283-285.
FetchAborted == pc = "idle" /\ ended = "aborted" /\ tries > 0

CycleFailedEmpty ==
    /\ ~fetch_successful
    /\ ret = 0
    /\ added = {}
    /\ cycle_out = <<>>

\* C12: an attempt that gets an authentication error is the last attempt
\* for its page: the decorator never waits after it, and the call ends with
\* the error at line 266, returns 0, has emitted nothing and has added no
\* key to the store.
C12_AuthenticationGiveUp ==
    (tries > 0 /\ AuthResponse(response)) =>
        /\ FetchAborted
        /\ is_auth_error(last_exc)
        /\ CycleFailedEmpty

\* The first attempt of a call got an authentication error whose message
\* only contains the signal, while the store held a key.
C12_Witness ==
    /\ FetchAborted
    /\ tries = 1
    /\ response = Response(200, ErrorsBody(<<ErrorItem(MSG_Rate), ErrorItem(MSG_AuthIn)>>))
    /\ PERSISTENT_REPORTED_OPPORTUNITIES # {}

\* C13: an attempt that gets HTTP 200 with valid data makes the page fetch
\* succeed, whatever the attempts before it got; an attempt that gets HTTP
\* 429 is followed by a wait and another attempt unless it was the last
\* attempt allowed.
C13_RateLimitRetried ==
    /\ (tries > 0 /\ ValidResponse(response)) => pc = "page"
    /\ (tries > 0 /\ response.connected /\ response.status = 429) =>
        \/ pc \in {"backoff", "fetch"}
        \/ FetchAborted /\ (tries = max_tries \/ elapsed >= max_time)

\* A page was fetched at the second attempt, after a first attempt that got
\* HTTP 429.
C13_Witness ==
    /\ pc = "page"
    /\ tries = 2
    /\ last_exc = Exc("HTTPError", 429, FALSE, <<>>)
    /\ ValidResponse(response)

\* C14: an attempt that gets an HTTP status from 400 to 499 other than 429
\* is the last attempt for its page: the call ends at lines 283-285, returns
\* 0 and has emitted nothing.
C14_ClientErrorGiveUp ==
    (/\ tries > 0
     /\ response.connected
     /\ response.status >= 400
     /\ response.status <= 499
     /\ response.status # 429) =>
        /\ FetchAborted
        /\ CycleFailedEmpty

\* The first attempt for the second page of a call got HTTP 499.
C14_Witness ==
    /\ FetchAborted
    /\ tries = 1
    /\ response.status = 499
    /\ page_sizes = <<PAGE_LIMIT>>

\* C15: no page fetch makes more than 5 attempts; the decorator waits only
\* after fewer than 5; and when the last attempt allowed has failed the
\* call has its exception, and holds no race of that page.
C15_BoundedRetry ==
    /\ tries <= 5
    /\ pc = "backoff" => tries < 5
    /\ (tries = 5 /\ pc # "page") =>
        /\ FetchAborted
        /\ last_exc # NoExc
        /\ ~fetch_successful
        /\ num_fetched = Len(page_sizes) * PAGE_LIMIT
        /\ page_num = Len(page_sizes) + 1

\* Five attempts for one page all failed with HTTP 500 or without a
\* response, within the time budget.
C15_Witness ==
    /\ FetchAborted
    /\ tries = 5
    /\ elapsed < max_time
    /\ last_exc.type \in {"HTTPError", "RequestException"}

\* C16: a call whose page fetch failed has ended, before any race was
\* filtered or scanned, whatever it had collected: it returned 0, emitted
\* nothing and added no key to the store.
C16_NoPartialCycle ==
    ~fetch_successful =>
        /\ pc = "idle"
        /\ ended = "aborted"
        /\ idx = 0
        /\ wi = 0
        /\ races_in_time_window = <<>>
        /\ CycleFailedEmpty

\* The fetch of the third page failed, with two full pages collected and a
\* key in the store.
C16_Witness ==
    /\ ~fetch_successful
    /\ page_sizes = <<PAGE_LIMIT, PAGE_LIMIT>>
    /\ num_fetched = 2 * PAGE_LIMIT
    /\ PERSISTENT_REPORTED_OPPORTUNITIES # {}

(* ----------------------------- the live loop -------------------------- *)
\* The last call ended in a cycle-level error: a page fetch that failed for
\* good, or an exception raised while filtering or scanning.
CycleError == ended \in {"aborted", "except", "escaped", "fatal"}

\* C17: after a call that ended in a cycle-level error, and until the next
\* call or a Ctrl+C, the loop is Running, the cycle counts as zero
\* opportunities, and once the sleep is over the next call can start.
C17_BadCycleNotFatal ==
    (sigint = 0 /\ CycleError) =>
        /\ Running
        /\ pc = "idle"
        /\ ret = 0
        /\ (lp = "tick" /\ cycles < MaxCycles) => ENABLED CallCheck

\* A call ended in the handler of lines 446-448, the loop slept, and the
\* next call is about to start.
C17_Witness ==
    /\ ended = "except"
    /\ lp = "tick"
    /\ sleep_time > 0
    /\ sigint = 0
    /\ cycles < MaxCycles

\* C18: the sleep computed after a call is never negative and is the
\* interval less the time the cycle took, or 0 if that is negative; the loop
\* sleeps only when the cycle took less than the interval; and a call runs
\* only while the loop waits for it at line 497, never while the loop
\* sleeps or is about to start a call.
C18_CyclePacing ==
    /\ sleep_time >= 0
    /\ lp = "sleep" =>
        /\ time_spent < interval
        /\ sleep_time = interval - time_spent
    /\ (lp = "tick" /\ cycles > 0) =>
        sleep_time = IF interval - time_spent > 0
                     THEN interval - time_spent ELSE 0
    /\ pc # "idle" => lp = "cycle"

\* A cycle took longer than the interval and the loop is about to start
\* the next call without having slept.
C18_Witness ==
    /\ lp = "tick"
    /\ cycles = 1
    /\ time_spent > interval
    /\ sleep_time = 0
    /\ ended = "returned"

\* C19: once the loop of line 490 is entered it is Running until a Ctrl+C
\* is delivered, whatever the calls meet; and when it is Stopped no call is
\* running and none can start.
C19_StopsOnlyOnCancellation ==
    /\ (lp \notin {"module", "exited"} /\ sigint = 0) => Running
    /\ Stopped =>
        /\ sigint = 1
        /\ pc = "idle"
        /\ ~ENABLED CallCheck

\* A call failed to fetch its page, the loop went on, and a Ctrl+C then
\* stopped it before the second call.
C19_Witness ==
    /\ Stopped
    /\ sigint = 1
    /\ cycles = 1
    /\ ended = "aborted"

\* C20: once a Ctrl+C has been delivered the loop is Stopped, no call is
\* running, and no step can follow: nothing is emitted after the signal.
C20_CancellationNotSwallowed ==
    sigint = 1 =>
        /\ Stopped
        /\ pc = "idle"
        /\ ~ENABLED Next

\* A Ctrl+C ended a call that had read part of the response.
C20_Witness ==
    /\ sigint = 1
    /\ Stopped
    /\ ended = "interrupted"
    /\ records > 0
    /\ PERSISTENT_REPORTED_OPPORTUNITIES # {}

(* ------------------------- failures and the loop ---------------------- *)
\* C22 (as claimed): the step the loop takes after a call whose page fetch
\* gave up on an authentication error stops the loop.
C22_AuthenticationFailureStopsLoop ==
    [][(lp = "cycle" /\ pc = "idle" /\ FetchAborted /\ is_auth_error(last_exc))
       => lp' = "Stopped"]_vars

\* C24: place_bet is called at most once for a key and only for a key of the
\* store, so a key whose call failed is still stored and is not sent again;
\* and after a call that ended in the failure of place_bet the loop is
\* Running, and the next call can start.
C24_SinkFailureContained ==
    /\ \A k \in Keys :
        /\ sink_calls[k] <= 1
        /\ sink_calls[k] = 1 => k \in PERSISTENT_REPORTED_OPPORTUNITIES
    /\ added \subseteq PERSISTENT_REPORTED_OPPORTUNITIES
    /\ (sigint = 0 /\ pc = "idle" /\ added # {}) =>
        /\ ended = "except"
        /\ Running
        /\ \A k \in added : sink_calls[k] = 1
        /\ (lp = "tick" /\ cycles < MaxCycles) => ENABLED CallCheck

\* The second call has scanned again the candidate whose place_bet call
\* failed in the first, and has passed it over.
C24_Witness ==
    /\ cycles = 2
    /\ pc = "next_runner"
    /\ mi = Len(bookmaker_markets_data)
    /\ FrameCandidates # {}
    /\ FrameCandidates \subseteq PERSISTENT_REPORTED_OPPORTUNITIES
    /\ \A k \in FrameCandidates : sink_calls[k] = 1
    /\ added = {}

\* C25 (as claimed): a runner whose price extraction meets an error is
\* passed over like a runner without a lay price, and the call goes on with
\* the runners and races that follow.
C25_SiblingIsolation ==
    get_betfair_lay_price(runner_data).exc =>
        /\ pc = "next_runner"
        /\ ended = "running"

(* ---------------------------- PriceExtractor -------------------------- *)
\* A win market whose first lay level parses to a positive number.
IsWinName(name) ==
    /\ contains(lower(name), STR_win)
    /\ ~contains(lower(name), STR_place)
    /\ ~contains(lower(name), STR_placed)

HasBestLay(market) ==
    /\ market.is_dict
    /\ market.name_is_str
    /\ IsWinName(market.marketName)
    /\ market.lay_is_list
    /\ Len(market.lay) > 0
    /\ market.lay[1].k \in {"num", "numstr"}
    /\ market.lay[1].n > 0

\* The price of the first lay level of the earliest such market, or none.
BestLayOf(feed) ==
    IF feed.is_list /\ \E i \in DOMAIN feed.items : HasBestLay(feed.items[i])
    THEN LET first == CHOOSE i \in DOMAIN feed.items :
                        /\ HasBestLay(feed.items[i])
                        /\ \A j \in 1..(i - 1) : ~HasBestLay(feed.items[j])
         IN Num(feed.items[first].lay[1].n)
    ELSE Null

\* C26 (as claimed): for every runner, get_betfair_lay_price raises nothing
\* and returns the first lay price of the earliest win market that has one,
\* or none when there is no such market.
C26_PriceExtractorResult ==
    /\ ~get_betfair_lay_price(runner_data).exc
    /\ get_betfair_lay_price(runner_data).price = BestLayOf(runner_data.betfairMarkets)

\* The same, for the runners get_betfair_lay_price returns from.
PriceExtractorResultWhenReturns ==
    ~get_betfair_lay_price(runner_data).exc =>
        get_betfair_lay_price(runner_data).price = BestLayOf(runner_data.betfairMarkets)

\* C27 (as claimed): once the module has been loaded as the main script the
\* PollLoop is Running, or has been Stopped.
C27_MainScriptPolls ==
    (module_name = "__main__" /\ lp # "module") => (Running \/ Stopped)

PersistKeys ==
    {opportunity_key(ScenarioRace, ScenarioRunner, PersistMarkets[i]) :
        i \in DOMAIN PersistMarkets}

\* Every one of the keys is in the store and has been emitted.
AllPersistEmitted ==
    \A k \in PersistKeys :
        /\ k \in PERSISTENT_REPORTED_OPPORTUNITIES
        /\ printed[k] = 1
        /\ sink_calls[k] = 1

\* C29: when the first call has met data with two candidates, then, unless
\* a fetch fails, the data changes or a Ctrl+C is delivered, a second call
\* ends over the same data; and when it has, both keys are in the store and
\* both have been emitted, one in each call.
C29_EventualEmission ==
    /\ [](e2e = "pok2" => AllPersistEmitted)
    /\ [](e2e = "pok1" =>
            /\ Cardinality(PERSISTENT_REPORTED_OPPORTUNITIES \cap PersistKeys) = 1
            /\ ended = "except")
    /\ (e2e = "pin1") ~> (e2e \in {"off", "pok2"})

\* Two calls over the data with two candidates have ended, each in the
\* failure of place_bet.
C29_Witness ==
    /\ e2e = "pok2"
    /\ cycles = 2
    /\ ended = "except"
    /\ AllPersistEmitted

(* ---------------------- the credential (lines 242-245) ---------------- *)
\* C21: without the API key a call of check_for_opportunities fetches
\* nothing and emits nothing; the SystemExit it raises is not caught by the
\* handler of line 503, so the first call is the last one and the process
\* ends with a non-zero status.
C21_MissingCredentialFatal ==
    api_key_missing(API_KEY) =>
        /\ pc = "idle"
        /\ tries = 0
        /\ page_sizes = <<>>
        /\ PERSISTENT_REPORTED_OPPORTUNITIES = {}
        /\ \A k \in Keys : printed[k] = 0 /\ sink_calls[k] = 0
        /\ cycles <= 1
        /\ cycles = 1 =>
              /\ Stopped
              /\ ended = "fatal"
              /\ Len(exit_status) = 1
              /\ exit_status[1] # 0
              /\ ~ENABLED Next

C21_Witness ==
    /\ api_key_missing(API_KEY)
    /\ cycles = 1
    /\ Stopped
    /\ exit_status = <<1>>

(* ---------------------- the interval (lines 456-464) ------------------ *)
\* C23: a poll interval that is not positive ends the program with a
\* non-zero status before the first polling cycle; the loop is never entered
\* with such an interval.
C23_InvalidIntervalFatal ==
    (is_main(module_name) /\ interval <= 0 /\ lp # "module") =>
        /\ lp = "exited"
        /\ cycles = 0
        /\ Len(exit_status) = 1
        /\ exit_status[1] # 0

(* ---------------------- insert before emit (396-424) ------------------ *)
\* The keys whose report failed between line 397 and line 424: stored, and
\* never passed to place_bet.
Lost == {k \in PERSISTENT_REPORTED_OPPORTUNITIES : sink_calls[k] = 0}

\* A key is passed to place_bet at most once, only after it was stored and
\* its report printed; a call that ends at a key's failed report returns 0.
LostKeysState ==
    /\ \A k \in Keys :
        /\ sink_calls[k] <= 1
        /\ printed[k] = sink_calls[k]
        /\ sink_calls[k] = 1 => k \in PERSISTENT_REPORTED_OPPORTUNITIES
    /\ added \subseteq PERSISTENT_REPORTED_OPPORTUNITIES
    /\ (pc = "idle" /\ added \cap Lost # {}) => (ended = "except" /\ ret = 0)

\* A lost key stays lost: it remains stored, and no later step prints it or
\* passes it to place_bet.
LostKeysStep ==
    \A k \in Lost :
        /\ k \in PERSISTENT_REPORTED_OPPORTUNITIES'
        /\ sink_calls'[k] = 0
        /\ printed'[k] = 0

\* line 351 raises for a race whose meeting is null before line 397 stores
\* any key of that race.
NullMeetingStep ==
    (pc = "races" /\ pc' = "idle" /\ meeting_track_raises(race_data'.meeting)) =>
        /\ PERSISTENT_REPORTED_OPPORTUNITIES' = PERSISTENT_REPORTED_OPPORTUNITIES
        /\ sink_calls' = sink_calls
        /\ added' = added
        /\ ended' = "except"

\* C30: when the report of a new candidate fails after line 397 stored its
\* key and before line 424 calls place_bet (a console write raises), the
\* key remains in the store, place_bet is never called for it and no later
\* cycle emits it; a null meeting raises at line 351, before any key of the
\* race is stored.
C30_InsertBeforeEmitLosesAlert ==
    /\ []LostKeysState
    /\ [][LostKeysStep /\ NullMeetingStep]_vars

\* A later cycle has met a lost key's candidate again and passed it over.
C30_Witness ==
    /\ cycles = 2
    /\ pc = "next_runner"
    /\ mi = Len(bookmaker_markets_data)
    /\ FrameCandidates # {}
    /\ FrameCandidates \subseteq Lost
    /\ added = {}

\* C30 as stated, with its example: a call that failed at a race whose
\* meeting is null has stored a key of that race and not emitted it.
C30_NullMeetingLosesAlert ==
    /\ LostKeysState
    /\ (pc = "idle" /\ ended = "except" /\ meeting_track_raises(race_data.meeting)) =>
           \E k \in added \cap Lost : k[1] = race_data.id

(* ---------------------- no page cap (lines 261-281) ------------------- *)
\* While a call collects, every page it has received was full, the call has
\* neither returned nor reported anything, and no other call can start; a
\* full page is always followed by the request of the next one.
NoPageCapState ==
    /\ Collecting =>
        /\ \A i \in DOMAIN page_sizes : page_sizes[i] = PAGE_LIMIT
        /\ ended = "running"
        /\ added = {}
        /\ cycle_out = <<>>
        /\ lp = "cycle"
        /\ ~ENABLED CallCheck
    /\ (pc = "page" /\ page_num < MaxPages) => ENABLED FetchFullPage

\* A page has just been received, of n races.
PageReceived(n) ==
    /\ pc = "page"
    /\ page_sizes' = Append(page_sizes, n)

\* An attempt has just failed for good: the decorator raises to line 266.
FetchFailedTerminally ==
    /\ pc = "fetch"
    /\ tries' = tries + 1
    /\ execute_graphql_query(response') # NoExc
    /\ retry_stops(execute_graphql_query(response'), tries', elapsed)

\* Without Ctrl+C the pagination loop is left exactly by a short page (to
\* the filter) or by a fetch that failed for good (lines 266-269, then
\* 283-285); a full page goes on to the next offset.
NoPageCapStep ==
    sigint' = sigint =>
        /\ (Collecting /\ ~Collecting') <=>
             \/ \E n \in 0..(PAGE_LIMIT - 1) : PageReceived(n)
             \/ FetchFailedTerminally
        /\ (\E n \in 0..(PAGE_LIMIT - 1) : PageReceived(n)) => pc' = "filter"
        /\ FetchFailedTerminally => (pc' = "idle" /\ ended' = "aborted" /\ ret' = 0)
        /\ PageReceived(PAGE_LIMIT) =>
             /\ pc' = "fetch"
             /\ page_num' = page_num + 1
             /\ current_offset' = current_offset + PAGE_LIMIT

\* C31: the pagination loop of a cycle ends if and only if a page is
\* shorter than the page size or a page fetch fails for good; there is no
\* cap on the number of pages, and as long as every page is full the cycle
\* does not complete, emits nothing, and no later cycle starts.
C31_NoPageCap ==
    /\ []NoPageCapState
    /\ [][NoPageCapStep]_vars

\* The second call has received full pages only and requests the last page
\* the model's bound allows.
C31_Witness ==
    /\ cycles = 2
    /\ pc = "fetch"
    /\ page_num = MaxPages
    /\ Len(page_sizes) = MaxPages - 1
    /\ \A i \in DOMAIN page_sizes : page_sizes[i] = PAGE_LIMIT
    /\ PERSISTENT_REPORTED_OPPORTUNITIES = {}

(* ---------------------- what is retried (196-231) --------------------- *)
\* HTTP 5xx.
ServerErrorResponse(resp) ==
    resp.connected /\ resp.status >= 500 /\ resp.status <= 599

\* HTTP 200 whose JSON body has neither 'errors' nor 'data'.
MissingDataResponse(resp) ==
    /\ resp.connected
    /\ resp.status = 200
    /\ resp.body.is_json
    /\ ~resp.body.has_errors
    /\ ~resp.body.has_data

\* HTTP 200 whose JSON body has 'errors', none of them the authentication
\* signal.
OtherErrorsResponse(resp) ==
    /\ resp.connected
    /\ resp.status = 200
    /\ resp.body.is_json
    /\ resp.body.has_errors
    /\ ~AuthResponse(resp)

\* HTTP 4xx other than 429.
ClientErrorResponse(resp) ==
    /\ resp.connected
    /\ resp.status >= 400
    /\ resp.status <= 499
    /\ resp.status # 429

\* C32: an attempt that gets HTTP 5xx, a 200 response without 'data', or
\* GraphQL errors without the authentication signal is followed by a wait
\* and another attempt unless it was the last attempt allowed; a page fetch
\* that fails at its first attempt got the authentication signal or a 4xx
\* status other than 429.
C32_TransientRetried ==
    /\ (/\ tries > 0
        /\ \/ ServerErrorResponse(response)
           \/ MissingDataResponse(response)
           \/ OtherErrorsResponse(response)) =>
          \/ pc \in {"backoff", "fetch"}
          \/ FetchAborted /\ (tries = max_tries \/ elapsed >= max_time)
    /\ (FetchAborted /\ tries = 1) =>
          (AuthResponse(response) \/ ClientErrorResponse(response))

\* The decorator waits after a third attempt that got a 200 response
\* without 'data', for the second page of a call.
C32_Witness ==
    /\ pc = "backoff"
    /\ tries = 3
    /\ MissingDataResponse(response)
    /\ page_sizes = <<PAGE_LIMIT>>

(* ---------------------- unidentified runners (355-361) ---------------- *)
\* A runner record without an identifier, or without a name.
WithoutIdOrName(runner) ==
    runner.id = NoId \/ runner.name \in {AbsentName, NullName}

\* C33: a runner without an identifier or without a name is skipped: its
\* iteration ends before its bookmaker markets are read, no Opportunity
\* names it, and no key of it is added.
C33_UnidentifiedRunnerSkipped ==
    /\ \A i \in DOMAIN cycle_out : ~WithoutIdOrName(cycle_out[i].runner)
    /\ (runner_data # NoRunner /\ WithoutIdOrName(runner_data)) =>
          /\ pc = "next_runner"
          /\ mi = 0
          /\ bookmaker_markets_data = <<>>
          /\ added = {}

\* What holds: a runner without an identifier, or whose 'name' key is
\* absent, is skipped.
UnidentifiedRunnerSkippedUnlessNull ==
    /\ \A i \in DOMAIN cycle_out :
          /\ cycle_out[i].runner.id # NoId
          /\ cycle_out[i].runner.name # AbsentName
    /\ (runner_data # NoRunner /\ runner_unidentified(runner_data)) =>
          /\ pc = "next_runner"
          /\ mi = 0
          /\ bookmaker_markets_data = <<>>
          /\ added = {}

(* ---------------------- step 3 and the window (320-337) --------------- *)
\* Lower bounds of the window, in seconds: the least one above -1 minute,
\* zero, and the configured one.
WindowMinimums == {0 - 59, 0, MIN_TIME_TO_JUMP * 60}

\* line 329 with another lower bound, in seconds.
in_window_from(min_secs, secs) ==
    /\ min_secs <= secs
    /\ secs <= MAX_TIME_TO_JUMP * 60

\* lines 296-337 for one race, without the test of line 321.
kept_without_step_3(race) ==
    /\ race.status \in {"Open", "Suspended"}
    /\ race.startTime.k = "iso"
    /\ MIN_TIME_TO_JUMP * 60 <= race.startTime.n
    /\ race.startTime.n <= MAX_TIME_TO_JUMP * 60

\* C34: the filter loop appends a race exactly when the race passes the
\* status, start-time and window tests, the test of line 321 left out; and
\* a race line 321 rejects is outside the window for every lower bound
\* above -1 minute.
C34_AlreadyStartedSubsumed ==
    [][(pc = "filter" /\ idx' = idx + 1 /\ pc' = "filter")
       => /\ races_in_time_window' =
               IF kept_without_step_3(race_data')
               THEN Append(races_in_time_window, race_data')
               ELSE races_in_time_window
          /\ (race_data'.startTime.k = "iso" /\ already_started(race_data'.startTime.n))
               => \A m \in WindowMinimums : ~in_window_from(m, race_data'.startTime.n)]_vars

\* The filter loop has just passed over an Open race that started exactly
\* one minute ago.
C34_Witness ==
    /\ pc = "filter"
    /\ idx > 0
    /\ race_data.status = "Open"
    /\ race_data.startTime = Iso(0 - 60)
    /\ races_in_time_window = <<>>

(* ---------------------- the notifier's order (phase2.py) -------------- *)
Sent(endpoint) ==
    \E i \in DOMAIN notifier.requests : notifier.requests[i] = endpoint

\* What holds in every case: the create request is the last of three
\* requests in the order competition, bookie, create, and is sent only with
\* both lookups successful and a valid code; a call that failed before it
\* sent at most the lookups, and no bookie lookup after a failed competition
\* lookup.
NotifierOrder ==
    /\ Sent(NOTIFICATION_CREATE_ENDPOINT) =>
        /\ notifier.requests = <<COMPETITION_NAMECODES_ENDPOINT,
                                 BOOKIE_NAMES_ENDPOINT,
                                 NOTIFICATION_CREATE_ENDPOINT>>
        /\ notifier.competition_details.kind = "value"
        /\ notifier.betmatic_bookie_id.kind = "value"
        /\ notifier.code \in valid_codes
    /\ Sent(BOOKIE_NAMES_ENDPOINT) =>
        /\ notifier.requests[1] = COMPETITION_NAMECODES_ENDPOINT
        /\ notifier.competition_details.kind = "value"
    /\ notifier.result = <<"json">> => Sent(NOTIFICATION_CREATE_ENDPOINT)

\* One of the three steps has failed.
StepFailed ==
    \/ notifier.at = "done" /\ notifier.competition_details.kind # "value"
    \/ notifier.at = "done" /\ Sent(BOOKIE_NAMES_ENDPOINT)
         /\ notifier.betmatic_bookie_id.kind # "value"
    \/ notifier.at = "done" /\ notifier.code # "" /\ notifier.code \notin valid_codes

\* C35: the create request is sent only after the competition lookup, the
\* bookie lookup and the validation of the code succeeded, in this order; a
\* call in which one of the three failed has returned None without sending
\* it, and a failed competition lookup is not followed by a bookie lookup.
C35_NotificationOrder ==
    /\ NotifierOrder
    /\ StepFailed =>
        /\ notifier.result = <<"None">>
        /\ ~Sent(NOTIFICATION_CREATE_ENDPOINT)

====
